---- MODULE Spec2Model ----
(***************************************************************************)
(* A model of the librarian: the Librarian orchestrator                   *)
(* (src/librarian/librarian.py), the metadata index (src/librarian/dao),   *)
(* the ingestion pipeline (src/librarian/document_ingestion.py), the       *)
(* vector store handle (src/librarian/db/qdrant.py) and the persisted      *)
(* configuration (src/librarian/librarian_config.py).                      *)
(*                                                                         *)
(* Python strings are sequences of characters (one-character TLA+ strings; *)
(* a file suffix such as ".txt" is one character of the model alphabet).   *)
(* An Optional argument is a record [some, v].  A dict is a function from  *)
(* its keys.  An exception is the name of the except-clause family it      *)
(* falls in: "ValueError" (ValueError and its subclasses),                 *)
(* "FileNotFoundError", "RuntimeError", "AttributeError" or "Exception"    *)
(* (any other subclass of Exception); "None" is no exception.  A call that *)
(* has not returned has "Running" in that place, and one that the death of *)
(* its process ended has "Crash".                                          *)
(***************************************************************************)
EXTENDS Integers, Sequences, FiniteSets, TLC

VARIABLES
    present,   \* the files of Files that exist on disk
    repo,      \* whether the clone target GITREPO_DIR/<repo_name> exists on disk
    config,    \* config.json: the value stored under 'collection_name', if any
    active,    \* Librarian.vector_store.collection_name of the one Librarian
    vcolls,    \* the collections that exist in the vector database
    points,    \* per collection, the bag of points (chunk |-> copies)
    index,     \* per collection, the rows of its sqlite file, in insertion order
    gen,       \* the add_by_path generator the consumer holds, if any
    last,      \* the last call made and its result
    call,      \* the add_file or remove call that is between two of its steps, if any
    crashes,   \* how many times the process was killed in the middle of a call
    race,      \* per concurrent Librarian process, its add_file call between two steps
    clock      \* the time the index stamps a new record with

vars == <<present, repo, config, active, vcolls, points, index, gen, last, call, crashes, race, clock>>

---------------------------------------------------------------------------
(* Python values *)

None == [some |-> FALSE, v |-> <<>>]
Some(x) == [some |-> TRUE, v |-> x]

EmptyDict == [k \in {} |-> <<>>]

\* dict.update: the keys of e take precedence
update(d, e) == [k \in DOMAIN d \cup DOMAIN e |-> IF k \in DOMAIN e THEN e[k] ELSE d[k]]

Min(a, b) == IF a <= b THEN a ELSE b

\* s[:n]
slice_to(s, n) == SubSeq(s, 1, Min(n, Len(s)))

\* str.lower on one character of the model alphabet
lower_char(c) ==
    CASE c = "A" -> "a"
      [] c = "B" -> "b"
      [] c = ".PDF" -> ".pdf"
      [] OTHER -> c

RECURSIVE lstrip(_)
lstrip(s) == IF s /= <<>> /\ Head(s) = " " THEN lstrip(Tail(s)) ELSE s

RECURSIVE rstrip(_)
rstrip(s) == IF s /= <<>> /\ s[Len(s)] = " " THEN rstrip(SubSeq(s, 1, Len(s) - 1)) ELSE s

\* str.strip
strip(s) == rstrip(lstrip(s))

\* SQLite's LIKE: % is any run of characters, _ is any one character, and the
\* comparison of letters ignores case.
RECURSIVE like(_, _)
like(s, pat) ==
    IF pat = <<>> THEN s = <<>>
    ELSE IF Head(pat) = "%"
         THEN like(s, Tail(pat)) \/ (s /= <<>> /\ like(Tail(s), pat))
         ELSE /\ s /= <<>>
              /\ (Head(pat) = "_" \/ lower_char(Head(pat)) = lower_char(Head(s)))
              /\ like(Tail(s), Tail(pat))

---------------------------------------------------------------------------
(* The disk: the files an add can be given *)

\* the number of leading characters of a digest a caller passes as hash_prefix
PrefixLen == 2

MAX_FILE_SIZE_BYTES == 2

DEFAULT_COLLECTION_NAME == <<"d">>

Files == {"f1", "f2", "f3", "f4", "f5", "f6"}

\* dir: the directory the file is in; name: Path.name; content: the file's bytes;
\* corrupt: its loader fails; chunks: the passages the splitter cuts it into
FileAttr ==
    [f \in Files |->
       CASE f = "f1" -> [dir |-> "docs", name |-> <<"a", ".txt">>, size |-> 1,
                         content |-> "x", corrupt |-> FALSE, chunks |-> 2]
         [] f = "f2" -> [dir |-> "docs", name |-> <<"A", "b", ".txt">>, size |-> 1,
                         content |-> "x", corrupt |-> FALSE, chunks |-> 2]
         [] f = "f3" -> [dir |-> "docs", name |-> <<"b", ".md">>, size |-> 3,
                         content |-> "y", corrupt |-> FALSE, chunks |-> 1]
         [] f = "f4" -> [dir |-> "docs", name |-> <<"c", ".PDF">>, size |-> 1,
                         content |-> "z", corrupt |-> TRUE, chunks |-> 1]
         [] f = "f5" -> [dir |-> "docs", name |-> <<"a", "n", ".log">>, size |-> 2,
                         content |-> "n", corrupt |-> FALSE, chunks |-> 1]
         [] OTHER    -> [dir |-> "repo", name |-> <<"r", ".md">>, size |-> 1,
                         content |-> "w", corrupt |-> FALSE, chunks |-> 1]]

\* the files another process may delete and put back while the librarian runs
Volatile == {"f2"}

\* hashlib.sha256(bytes).hexdigest(): a fixed-length digest, one per content
sha256(bytes) ==
    CASE bytes = "x" -> <<"a", "1", "c">>
      [] bytes = "n" -> <<"a", "1", "f">>
      [] bytes = "w" -> <<"7", "e", "0">>
      [] bytes = "y" -> <<"3", "b", "2">>
      [] OTHER       -> <<"5", "d", "9">>

\* a digest of the file's name instead of its bytes
calculate_file_hash_of_name(f) == FileAttr[f].name

calculate_file_hash(f) == sha256(FileAttr[f].content)

\* Path.suffix
suffix(f) == FileAttr[f].name[Len(FileAttr[f].name)]


\* document_ingestion.get_supported_suffixes
get_supported_suffixes == {".pdf", ".epub", ".md", ".txt"}

\* the files that exist: those of pres, and those of the clone when its
\* directory exists (rp)
on_disk(pres, rp) ==
    {f \in Files : IF FileAttr[f].dir = "repo" THEN rp ELSE f \in pres}

\* the files of a directory, as Path.rglob('*') finds them (is_file() holds)
rglob(d, pres, rp) == {f \in on_disk(pres, rp) : FileAttr[f].dir = d}

\* the files of S in the order of the directory listing
RECURSIVE listing(_)
listing(S) ==
    IF S = {} THEN <<>>
    ELSE LET f == CHOOSE x \in S : \A y \in S : \E i, j \in 1..6 :
                    /\ <<"f1", "f2", "f3", "f4", "f5", "f6">>[i] = x
                    /\ <<"f1", "f2", "f3", "f4", "f5", "f6">>[j] = y
                    /\ i <= j
         IN  <<f>> \o listing(S \ {f})

reversed(q) == [i \in 1..Len(q) |-> q[Len(q) + 1 - i]]

\* the orders in which rglob lists the files of S: the order of the directory
\* listing, or its reverse
Orders(S) == {listing(S), reversed(listing(S))}

---------------------------------------------------------------------------
(* librarian_config.py *)

\* config.json is missing, is not JSON or not a JSON object, or holds a dict
ConfigMissing == [kind |-> "missing", data |-> EmptyDict]

_load_config(cfg) == IF cfg.kind = "dict" THEN cfg.data ELSE EmptyDict

get_collection_name(cfg) ==
    LET d == _load_config(cfg)
        value == strip(IF "collection_name" \in DOMAIN d THEN d["collection_name"] ELSE <<>>)
    IN  IF value /= <<>> THEN value ELSE DEFAULT_COLLECTION_NAME

\* a save that writes a configuration of its own
save_collection_name_afresh(cfg, name) ==
    LET sanitized == IF strip(name) = <<>> THEN DEFAULT_COLLECTION_NAME ELSE strip(name)
    IN  [kind |-> "dict", data |-> "collection_name" :> sanitized]

save_collection_name(cfg, name) ==
    LET sanitized == IF strip(name) = <<>> THEN DEFAULT_COLLECTION_NAME ELSE strip(name)
    IN  [kind |-> "dict", data |-> update(_load_config(cfg), "collection_name" :> sanitized)]

\* the names a caller passes to switch_collection
RawNames == {<<"w">>, <<" ", "w">>, <<" ">>}

\* the collections these names select
Collections == {get_collection_name(save_collection_name(ConfigMissing, n)) : n \in RawNames}

---------------------------------------------------------------------------
(* dao: one sqlite file per collection, each a table of LibraryFile rows *)

\* a partition that ignores the collection name
db_url_shared(collection_name) == <<"librarian.db-">> \o DEFAULT_COLLECTION_NAME

\* BaseDao.__init__: the sqlite file of a collection
db_url(collection_name) == <<"librarian.db-">> \o collection_name

Urls == {db_url(c) : c \in Collections}

\* LibraryFileDao.from_collection(name), which the sources call and do not
\* define: by the specification (each collection maps to an independent storage
\* partition), the dao of the collection's own file
from_collection(idx, collection_name) == idx[db_url(collection_name)]

LibraryFile(hash_id, file_name) == [hash_id |-> hash_id, file_name |-> file_name]

\* an existence probe that never finds the row
exist_never(rows, hash_id) == FALSE

\* LibraryFileDao.exist
exist(rows, hash_id) == \E i \in 1..Len(rows) : rows[i].hash_id = hash_id

\* BaseDao.add
dao_add(rows, obj) == Append(rows, obj)

\* LibraryFileDao.find: hash_id.startswith(hash_prefix), file_name.like('%filename%')
find(rows, hash_prefix, filename) ==
    LET match(r) ==
          /\ hash_prefix.some => like(r.hash_id, hash_prefix.v \o <<"%">>)
          /\ filename.some => like(r.file_name, <<"%">> \o filename.v \o <<"%">>)
    IN  SelectSeq(rows, match)

\* BaseDao.count
count(rows) == Len(rows)

\* a delete that drops its filter
dao_delete_every(rows, clause) == <<>>

\* a delete that leaves the rows in place
dao_delete_nothing(rows, clause) == rows

\* BaseDao.delete: every row, or the rows with LibraryFile.hash_id == clause.v
dao_delete(rows, clause) ==
    IF clause.some
    THEN LET keep(r) == r.hash_id /= clause.v IN SelectSeq(rows, keep)
    ELSE <<>>

---------------------------------------------------------------------------
(* document_ingestion.py and the vector store *)

\* the exception families a loader or the vector database may raise
ExcKinds == {"ValueError", "Exception"}

EmptyBag == [e \in {} |-> 0]

bag_add(b, e) == IF e \in DOMAIN b THEN [b EXCEPT ![e] = @ + 1] ELSE b @@ (e :> 1)

\* get_suffix_saver_map().get(path.suffix.lower()), save_text when there is none
saver(f) ==
    LET s == lower_char(suffix(f))
    IN  CASE s = ".pdf" -> "save_pdf"
          [] s = ".epub" -> "save_epub"
          [] s = ".md" -> "save_markdown"
          [] OTHER -> "save_text"

\* loader.load() followed by text_splitter.split_documents: the chunks of a file,
\* each with the metadata its loader reports
split_documents(f) ==
    [i \in 1..FileAttr[f].chunks |->
       [page_content |-> <<FileAttr[f].content, i>>,
        metadata |-> IF saver(f) = "save_pdf"
                     THEN ("source" :> f) @@ ("page" :> "0")
                     ELSE ("source" :> f)]]

\* document_ingestion.inject_metadata
inject_metadata(docs, metadata) ==
    [i \in DOMAIN docs |->
       IF DOMAIN metadata /= {}
       THEN [docs[i] EXCEPT !.metadata = update(@, metadata)]
       ELSE docs[i]]

\* vectorstore.add_documents: one point per document
RECURSIVE add_documents(_, _)
add_documents(bag, docs) ==
    IF docs = <<>> THEN bag ELSE add_documents(bag_add(bag, Head(docs)), Tail(docs))

\* finalize_and_save_docs; the vector database refuses a write to a collection
\* it does not hold with an exception of family k
finalize_and_save_docs(docs, coll, metadata, vc, pts, k) ==
    LET final == IF DOMAIN metadata /= {} THEN inject_metadata(docs, metadata) ELSE docs
    IN  IF coll \notin vc
        THEN [exc |-> k, msg |-> "collection not found", points |-> pts]
        ELSE [exc |-> "None", msg |-> "None",
              points |-> [pts EXCEPT ![coll] = add_documents(@, final)]]

\* save_any and the saver it dispatches to; a corrupt file makes loader.load()
\* raise an exception of family k
save_any(f, pres, coll, metadata, vc, pts, k) ==
    IF f \notin pres
    THEN [exc |-> "FileNotFoundError", msg |-> "File not found", points |-> pts]
    ELSE IF FileAttr[f].corrupt
         THEN [exc |-> k, msg |-> "load failed", points |-> pts]
         ELSE finalize_and_save_docs(split_documents(f), coll, metadata, vc, pts, k)

\* a delete whose filter matches no point
delete_points_none(bag, hash_id) == bag

\* client.delete(points_selector = metadata.hash_id == hash_id)
delete_points(bag, hash_id) ==
    LET keep == {e \in DOMAIN bag : ~("hash_id" \in DOMAIN e.metadata /\ e.metadata["hash_id"] = hash_id)}
    IN  [e \in keep |-> bag[e]]

---------------------------------------------------------------------------
(* db/qdrant.py and vector_store_service.py *)

\* qdrant.init_collection, called by get_vector_store: the collection is created
\* when the vector database does not hold it
init_collection(vc, collection_name) == vc \cup {collection_name}

\* VectorStoreService.delete_collection: the whole collection leaves the vector
\* database, with every point of it
delete_collection(vc, pts, collection_name) ==
    [vcolls |-> vc \ {collection_name},
     points |-> [pts EXCEPT ![collection_name] = EmptyBag]]

---------------------------------------------------------------------------
(* librarian.py: the operations of Librarian as functions of the stores *)

\* an add_file that writes to the vector store before it checks anything
add_file_write_first(f, additional_metadata, k, pres, coll, vc, pts, idx) ==
    LET file_hash == calculate_file_hash(f)
        metadata == update("hash_id" :> file_hash, additional_metadata)
        saved == save_any(f, pres, coll, metadata, vc, pts, k)
    IN  IF f \notin pres
        THEN [exc |-> "FileNotFoundError", msg |-> "File not found",
              points |-> pts, index |-> idx]
        ELSE IF saved.exc /= "None"
        THEN [exc |-> saved.exc, msg |-> saved.msg, points |-> pts, index |-> idx]
        ELSE IF FileAttr[f].size > MAX_FILE_SIZE_BYTES
        THEN [exc |-> "ValueError", msg |-> "File size exceeds maximum allowed size",
              points |-> saved.points, index |-> idx]
        ELSE IF exist(from_collection(idx, coll), file_hash)
        THEN [exc |-> "ValueError", msg |-> "File already exists in library",
              points |-> saved.points, index |-> idx]
        ELSE [exc |-> "None", msg |-> "None", points |-> saved.points,
              index |-> [idx EXCEPT ![db_url(coll)] =
                           dao_add(@, LibraryFile(file_hash, FileAttr[f].name))]]

\* an add_file that records the file in the index although the write to the
\* vector store failed
add_file_record_despite_error(f, additional_metadata, k, pres, coll, vc, pts, idx) ==
    LET file_hash == calculate_file_hash(f)
        metadata == update("hash_id" :> file_hash, additional_metadata)
        saved == save_any(f, pres, coll, metadata, vc, pts, k)
    IN  IF f \notin pres
        THEN [exc |-> "FileNotFoundError", msg |-> "File not found",
              points |-> pts, index |-> idx]
        ELSE IF FileAttr[f].size > MAX_FILE_SIZE_BYTES
        THEN [exc |-> "ValueError", msg |-> "File size exceeds maximum allowed size",
              points |-> pts, index |-> idx]
        ELSE IF exist(from_collection(idx, coll), file_hash)
        THEN [exc |-> "ValueError", msg |-> "File already exists in library",
              points |-> pts, index |-> idx]
        ELSE [exc |-> saved.exc, msg |-> saved.msg, points |-> saved.points,
              index |-> [idx EXCEPT ![db_url(coll)] =
                           dao_add(@, LibraryFile(file_hash, FileAttr[f].name))]]

\* Librarian.add_file: the exception it raises ("None": it returns) and the stores
\* it leaves
add_file(f, additional_metadata, k, pres, coll, vc, pts, idx) ==
    LET file_hash == calculate_file_hash(f)
        metadata == update("hash_id" :> file_hash, additional_metadata)
        saved == save_any(f, pres, coll, metadata, vc, pts, k)
    IN  IF f \notin pres
        THEN [exc |-> "FileNotFoundError", msg |-> "File not found",
              points |-> pts, index |-> idx]
        ELSE IF FileAttr[f].size > MAX_FILE_SIZE_BYTES
        THEN [exc |-> "ValueError", msg |-> "File size exceeds maximum allowed size",
              points |-> pts, index |-> idx]
        ELSE IF exist(from_collection(idx, coll), file_hash)
        THEN [exc |-> "ValueError", msg |-> "File already exists in library",
              points |-> pts, index |-> idx]
        ELSE IF saved.exc /= "None"
        THEN [exc |-> saved.exc, msg |-> saved.msg, points |-> pts, index |-> idx]
        ELSE [exc |-> "None", msg |-> "None", points |-> saved.points,
              index |-> [idx EXCEPT ![db_url(coll)] =
                           dao_add(@, LibraryFile(file_hash, FileAttr[f].name))]]

\* a remove that takes the first of several matches
remove_first_match(hash_prefix, filename, k, coll, vc, pts, idx) ==
    LET files == find(from_collection(idx, coll), hash_prefix, filename)
        hash_id == files[1].hash_id
    IN  IF Len(files) = 0
        THEN [exc |-> "None", ret |-> FALSE, points |-> pts, index |-> idx]
        ELSE IF coll \notin vc
        THEN [exc |-> k, ret |-> FALSE, points |-> pts, index |-> idx]
        ELSE [exc |-> "None", ret |-> TRUE,
              points |-> [pts EXCEPT ![coll] = delete_points(@, hash_id)],
              index |-> [idx EXCEPT ![db_url(coll)] = dao_delete(@, Some(hash_id))]]

\* a remove that raises when nothing matches
remove_raises_on_none(hash_prefix, filename, k, coll, vc, pts, idx) ==
    LET files == find(from_collection(idx, coll), hash_prefix, filename)
        hash_id == files[1].hash_id
    IN  IF Len(files) /= 1
        THEN [exc |-> "ValueError", ret |-> FALSE, points |-> pts, index |-> idx]
        ELSE IF coll \notin vc
        THEN [exc |-> k, ret |-> FALSE, points |-> pts, index |-> idx]
        ELSE [exc |-> "None", ret |-> TRUE,
              points |-> [pts EXCEPT ![coll] = delete_points(@, hash_id)],
              index |-> [idx EXCEPT ![db_url(coll)] = dao_delete(@, Some(hash_id))]]

\* Librarian.remove: the exception it raises, the value it returns and the stores
\* it leaves; client.delete on a collection the vector database does not hold
\* raises an exception of family k
remove(hash_prefix, filename, k, coll, vc, pts, idx) ==
    LET files == find(from_collection(idx, coll), hash_prefix, filename)
        hash_id == files[1].hash_id
    IN  IF Len(files) = 0
        THEN [exc |-> "None", ret |-> FALSE, points |-> pts, index |-> idx]
        ELSE IF Len(files) > 1
        THEN [exc |-> "ValueError", ret |-> FALSE, points |-> pts, index |-> idx]
        ELSE IF coll \notin vc
        THEN [exc |-> k, ret |-> FALSE, points |-> pts, index |-> idx]
        ELSE [exc |-> "None", ret |-> TRUE,
              points |-> [pts EXCEPT ![coll] = delete_points(@, hash_id)],
              index |-> [idx EXCEPT ![db_url(coll)] = dao_delete(@, Some(hash_id))]]

\* Librarian.count_files
count_files(coll, idx) == count(from_collection(idx, coll))

\* a drop that clears the rows of every collection's file
drop_collection_every(cfg, coll, vc, pts, idx) ==
    LET dropped == delete_collection(vc, pts, coll)
    IN  [config |-> cfg, vcolls |-> dropped.vcolls, points |-> dropped.points,
         index |-> [u \in DOMAIN idx |-> dao_delete(idx[u], None)]]

\* Librarian.drop_collection: the stores and the configuration it leaves
drop_collection(cfg, coll, vc, pts, idx) ==
    LET dropped == delete_collection(vc, pts, coll)
    IN  [config |-> cfg, vcolls |-> dropped.vcolls, points |-> dropped.points,
         index |-> [idx EXCEPT ![db_url(coll)] = dao_delete(@, None)]]

\* a switch whose new handle is on the default collection
switch_collection_default_handle(cfg, collection_name, vc) ==
    LET saved == save_collection_name(cfg, collection_name)
    IN  [config |-> saved, active |-> DEFAULT_COLLECTION_NAME,
         vcolls |-> init_collection(vc, DEFAULT_COLLECTION_NAME)]

\* a switch that leaves only the new collection in the vector database
switch_collection_recreate(cfg, collection_name, vc) ==
    LET saved == save_collection_name(cfg, collection_name)
    IN  [config |-> saved, active |-> get_collection_name(saved),
         vcolls |-> {get_collection_name(saved)}]

\* Librarian.switch_collection: the configuration, the handle and the collections
\* of the vector database it leaves
switch_collection(cfg, collection_name, vc) ==
    LET saved == save_collection_name(cfg, collection_name)
    IN  [config |-> saved, active |-> get_collection_name(saved),
         vcolls |-> init_collection(vc, get_collection_name(saved))]

---------------------------------------------------------------------------
(* The state machine *)

\* the paths add_by_path is given: a file, a directory, a path that does not
\* exist, and the URL of a git repository
GitUrl == "u.git"
Paths == {"f3", "f5", "docs", "nowhere", GitUrl}

\* the files add_file is called on directly
AddFileArgs == {"f3", "f4", "f5"}

\* what happens to `git clone`: git is not installed, the clone fails, it succeeds
GitOutcomes == {"missing", "fails", "ok"}

\* the additional_metadata a caller of add_file passes
AdditionalMetadata == {EmptyDict}

\* the arguments remove is called with
HashPrefixes ==
    {None} \cup {Some(slice_to(sha256(b), PrefixLen)) : b \in {"x", "n", "w"}}
Filenames == {None, Some(<<"a">>)}

\* a call: its arguments, the exception it raised ("None": none), whether it
\* returned True (remove) or ran to its end (add_by_path), whether it found
\* rows in the index of the current collection (drop_collection) or the clone
\* target on disk (add_by_path), and the limit
\* it was given and the records it returned (find_latest_files)
Call(op) ==
    [op |-> op, path |-> "", hash_prefix |-> None, filename |-> None,
     exc |-> "None", ret |-> FALSE, held |-> FALSE, limit |-> 0, result |-> <<>>]

\* no generator is held
NoGen ==
    [pc |-> "idle", path |-> "", file_paths |-> <<>>, queue |-> <<>>, outs |-> <<>>,
     metadata |-> EmptyDict, cloned_from_git |-> FALSE]

\* the tuple add_by_path yields
Outcome(status, file_path, error_msg) ==
    [status |-> status, file_path |-> file_path, error_msg |-> error_msg]

\* except clauses in which the general one comes first
status_of_general_first(exc) == IF exc = "None" THEN "added" ELSE "error"

\* the except clauses of add_by_path
status_of(exc) ==
    IF exc = "None" THEN "added" ELSE IF exc = "ValueError" THEN "skipped" ELSE "error"

\* no call is between two of its steps
NoCall == [op |-> "", pc |-> "idle", path |-> "", hash_id |-> <<>>, docs |-> <<>>]

\* the concurrent Librarian processes
Instances == {1, 2}

\* none of them is in a call
NoRace == [i \in Instances |-> [pc |-> "idle", path |-> "", hash_id |-> <<>>, exc |-> "None"]]

\* a fresh installation: no config.json, and one Librarian() constructed
Init ==
    /\ present = {f \in Files : FileAttr[f].dir = "docs"}
    /\ repo = FALSE
    /\ config = ConfigMissing
    /\ active = get_collection_name(ConfigMissing)
    /\ vcolls = init_collection({}, get_collection_name(ConfigMissing))
    /\ points = [c \in Collections |-> EmptyBag]
    /\ index = [u \in Urls |-> <<>>]
    /\ gen = NoGen
    /\ last = Call("Librarian")
    /\ call = NoCall
    /\ crashes = 0
    /\ race = NoRace
    /\ clock = 0

\* Librarian.__init__ with no vector store given: a new process, or a new instance
NewLibrarian ==
    /\ gen.pc = "idle"
    /\ active' = get_collection_name(config)
    /\ vcolls' = init_collection(vcolls, get_collection_name(config))
    /\ last' = Call("Librarian")
    /\ UNCHANGED <<present, repo, config, points, index, gen, call, crashes, race, clock>>

SwitchCollection(name) ==
    /\ gen.pc = "idle"
    /\ LET r == switch_collection(config, name, vcolls)
       IN  /\ config' = r.config
           /\ active' = r.active
           /\ vcolls' = r.vcolls
           /\ last' = Call("switch_collection")
    /\ UNCHANGED <<present, repo, points, index, gen, call, crashes, race, clock>>

AddFile(f, additional_metadata, k) ==
    /\ gen.pc = "idle"
    /\ LET r == add_file(f, additional_metadata, k, on_disk(present, repo), active, vcolls, points, index)
       IN  /\ points' = r.points
           /\ index' = r.index
           /\ last' = [Call("add_file") EXCEPT !.path = f, !.exc = r.exc]
    /\ UNCHANGED <<present, repo, config, active, vcolls, gen, call, crashes, race, clock>>

Remove(hash_prefix, filename, k) ==
    /\ gen.pc = "idle"
    /\ LET r == remove(hash_prefix, filename, k, active, vcolls, points, index)
       IN  /\ points' = r.points
           /\ index' = r.index
           /\ last' = [Call("remove") EXCEPT !.hash_prefix = hash_prefix,
                                             !.filename = filename,
                                             !.exc = r.exc, !.ret = r.ret]
    /\ UNCHANGED <<present, repo, config, active, vcolls, gen, call, crashes, race, clock>>

DropCollection ==
    /\ gen.pc = "idle"
    /\ LET r == drop_collection(config, active, vcolls, points, index)
       IN  /\ config' = r.config
           /\ vcolls' = r.vcolls
           /\ points' = r.points
           /\ index' = r.index
           /\ last' = [Call("drop_collection") EXCEPT !.held = (count(from_collection(index, active)) > 0)]
    /\ UNCHANGED <<present, repo, active, gen, call, crashes, race, clock>>

\* cli.librarian_drop: Librarian() is constructed, lib.drop_vector_store() is no
\* method of Librarian, and the command ends before save_collection_name
librarian_drop ==
    /\ gen.pc = "idle"
    /\ active' = get_collection_name(config)
    /\ vcolls' = init_collection(vcolls, get_collection_name(config))
    /\ last' = [Call("librarian_drop") EXCEPT !.exc = "AttributeError"]
    /\ UNCHANGED <<present, repo, config, points, index, gen, call, crashes, race, clock>>

\* clone_git_repo: the exception it raises and whether the target directory
\* exists afterwards
clone_git_repo(git, rp) ==
    IF git = "missing" THEN [exc |-> "RuntimeError", repo |-> rp]
    ELSE IF rp THEN [exc |-> "None", repo |-> TRUE]
    ELSE IF git = "fails" THEN [exc |-> "RuntimeError", repo |-> rp]
    ELSE [exc |-> "None", repo |-> TRUE]

\* path_obj.exists()
exists(path, pres) == path = "docs" \/ path \in pres

\* a discovery that keeps every file of the directory
candidates_unfiltered(dir_or_file, pres, rp) ==
    IF dir_or_file \in Files THEN {dir_or_file} ELSE rglob(dir_or_file, pres, rp)

\* the files add_by_path iterates over: the file itself, or the files of the
\* directory with a supported suffix
candidates(dir_or_file, pres, rp) ==
    IF dir_or_file \in Files
    THEN {dir_or_file}
    ELSE {f \in rglob(dir_or_file, pres, rp) : lower_char(suffix(f)) \in get_supported_suffixes}

\* add_by_path, from the first next() up to the for loop: the clone, the
\* discovery of the files (in the order q) and the metadata of the batch
AddByPathStart(path, git) ==
    /\ gen.pc = "idle"
    /\ IF path = GitUrl /\ ~exists(path, present)
       THEN LET c == clone_git_repo(git, repo)
            IN  IF c.exc /= "None"
                THEN /\ gen' = [NoGen EXCEPT !.pc = "running", !.path = path,
                                  !.outs = <<Outcome("error", path, "clone failed")>>]
                     /\ last' = [Call("add_by_path") EXCEPT !.path = path, !.held = repo]
                     /\ UNCHANGED repo
                ELSE /\ repo' = c.repo
                     /\ \E q \in Orders(candidates("repo", present, TRUE)) :
                          gen' = [pc |-> "running", path |-> path, file_paths |-> q, queue |-> q,
                                  outs |-> <<>>,
                                  metadata |-> "source_root" :> "/gitrepo/u",
                                  cloned_from_git |-> TRUE]
                     /\ last' = [Call("add_by_path") EXCEPT !.path = path, !.held = repo]
       ELSE IF ~exists(path, present)
       THEN /\ last' = [Call("add_by_path") EXCEPT !.path = path,
                                                   !.exc = "FileNotFoundError"]
            /\ UNCHANGED <<repo, gen>>
       ELSE /\ \E q \in Orders(candidates(path, present, repo)) :
                 gen' = [pc |-> "running", path |-> path, file_paths |-> q, queue |-> q,
                                  outs |-> <<>>,
                         metadata |-> IF path \in Files THEN EmptyDict
                                      ELSE "source_root" :> "/abs/docs",
                         cloned_from_git |-> FALSE]
            /\ last' = [Call("add_by_path") EXCEPT !.path = path, !.held = repo]
            /\ UNCHANGED repo
    /\ UNCHANGED <<present, config, active, vcolls, points, index, call, crashes, race, clock>>

\* one turn of the for loop: add_file on the next file, and the yield
AddByPathNext(k) ==
    /\ gen.pc = "running"
    /\ gen.queue /= <<>>
    /\ LET f == Head(gen.queue)
           r == add_file(f, gen.metadata, k, on_disk(present, repo), active, vcolls, points, index)
       IN  /\ points' = r.points
           /\ index' = r.index
           /\ gen' = [gen EXCEPT !.queue = Tail(@),
                                 !.outs = Append(@, Outcome(status_of(r.exc), f, r.msg))]
    /\ UNCHANGED <<present, repo, config, active, vcolls, last, call, crashes, race, clock>>

\* the loop is over: the finally clause, and the generator returns
AddByPathReturn ==
    /\ gen.pc = "running"
    /\ gen.queue = <<>>
    /\ repo' = IF gen.cloned_from_git THEN FALSE ELSE repo
    /\ last' = [last EXCEPT !.ret = TRUE]
    /\ gen' = NoGen
    /\ UNCHANGED <<present, config, active, vcolls, points, index, call, crashes, race, clock>>

\* a generator that works on the next file before it lets itself be closed
AddByPathClose_eager ==
    /\ gen.pc = "running"
    /\ gen.outs /= <<>>
    /\ IF gen.queue = <<>>
       THEN UNCHANGED <<points, index>>
       ELSE LET r == add_file(Head(gen.queue), gen.metadata, "Exception",
                              on_disk(present, repo), active, vcolls, points, index)
            IN  points' = r.points /\ index' = r.index
    /\ repo' = IF gen.cloned_from_git THEN FALSE ELSE repo
    /\ last' = [last EXCEPT !.exc = "GeneratorExit"]
    /\ gen' = NoGen
    /\ UNCHANGED <<present, config, active, vcolls, call, crashes, race, clock>>

\* a close after which no finally clause runs
AddByPathClose_no_finally ==
    /\ gen.pc = "running"
    /\ gen.outs /= <<>>
    /\ last' = [last EXCEPT !.exc = "GeneratorExit"]
    /\ gen' = NoGen
    /\ UNCHANGED <<present, repo, config, active, vcolls, points, index, call, crashes, race, clock>>

\* the consumer stops after an outcome: the generator is closed at its yield,
\* and the finally clause runs
AddByPathClose ==
    /\ gen.pc = "running"
    /\ gen.outs /= <<>>
    /\ repo' = IF gen.cloned_from_git THEN FALSE ELSE repo
    /\ last' = [last EXCEPT !.exc = "GeneratorExit"]
    /\ gen' = NoGen
    /\ UNCHANGED <<present, config, active, vcolls, points, index, call, crashes, race, clock>>

\* an exception that no except clause of the loop catches (a KeyboardInterrupt)
\* is raised between two files: the finally clause runs and it leaves the generator
AddByPathRaise ==
    /\ gen.pc = "running"
    /\ gen.queue /= <<>>
    /\ repo' = IF gen.cloned_from_git THEN FALSE ELSE repo
    /\ last' = [last EXCEPT !.exc = "KeyboardInterrupt"]
    /\ gen' = NoGen
    /\ UNCHANGED <<present, config, active, vcolls, points, index, call, crashes, race, clock>>

\* another process deletes a file, or puts it back
EnvDelete(f) ==
    /\ f \in present
    /\ present' = present \ {f}
    /\ UNCHANGED <<repo, config, active, vcolls, points, index, gen, last, call, crashes, race, clock>>

EnvRestore(f) ==
    /\ f \notin present
    /\ present' = present \cup {f}
    /\ UNCHANGED <<repo, config, active, vcolls, points, index, gen, last, call, crashes, race, clock>>

\* the families of the exception a step may meet: any of ExcKinds when a loader
\* or the vector database can raise in it, and one (never raised) when none can
KindsIf(can_raise) == IF can_raise THEN ExcKinds ELSE {"Exception"}

Next ==
    \/ NewLibrarian
    \/ \E name \in RawNames : SwitchCollection(name)
    \/ \E f \in AddFileArgs, amd \in AdditionalMetadata :
          \E k \in KindsIf(FileAttr[f].corrupt \/ active \notin vcolls) : AddFile(f, amd, k)
    \/ \E hp \in HashPrefixes, fn \in Filenames :
          \E k \in KindsIf(active \notin vcolls) : Remove(hp, fn, k)
    \/ DropCollection
    \/ librarian_drop
    \/ \E path \in Paths :
          \E git \in IF path = GitUrl THEN GitOutcomes ELSE {"ok"} : AddByPathStart(path, git)
    \/ \E k \in KindsIf(/\ gen.queue /= <<>>
                         /\ (FileAttr[Head(gen.queue)].corrupt \/ active \notin vcolls)) :
          AddByPathNext(k)
    \/ AddByPathReturn
    \/ AddByPathClose
    \/ AddByPathRaise
    \/ \E f \in Volatile : EnvDelete(f)
    \/ \E f \in Volatile : EnvRestore(f)

Spec == Init /\ [][Next]_vars

---------------------------------------------------------------------------
(* What the properties speak of *)

MsgDuplicate == "File already exists in library"
MsgTooLarge == "File size exceeds maximum allowed size"
MsgNotFound == "File not found"

\* the rows of a collection's partition
rows_of(idx, c) == idx[db_url(c)]

\* the number of rows with hash h
hash_count(rs, h) == Cardinality({i \in 1..Len(rs) : rs[i].hash_id = h})

\* the number of points of a bag whose metadata.hash_id is h
point_count(bag, h) ==
    LET S == {e \in DOMAIN bag : "hash_id" \in DOMAIN e.metadata /\ e.metadata["hash_id"] = h}
        RECURSIVE sum(_)
        sum(T) == IF T = {} THEN 0 ELSE LET e == CHOOSE x \in T : TRUE IN bag[e] + sum(T \ {e})
    IN  sum(S)

\* add_file has nothing to refuse in f: it is on disk, within the size limit, and
\* its loader reads it
Ingestible(f) ==
    f \in on_disk(present, repo) /\ FileAttr[f].size <= MAX_FILE_SIZE_BYTES /\ ~FileAttr[f].corrupt

\* the step is one turn of the add_by_path loop
IsNext == \E k \in ExcKinds : AddByPathNext(k)

\* two files with the same bytes under different names
Twins(f, g) == FileAttr[f].content = FileAttr[g].content /\ FileAttr[f].name /= FileAttr[g].name

---------------------------------------------------------------------------
(* The properties *)

\* the step is add_file(f) on its own, or the one turn of add_by_path(f) on the
\* single file f
AddsAlone(f) ==
    \/ last'.op = "add_file" /\ last'.path = f /\ \E k \in ExcKinds : AddFile(f, EmptyDict, k)
    \/ gen.path = f /\ gen.queue = <<f>> /\ IsNext

\* C1, first call: add_by_path on a single file that add_file has nothing to
\* refuse in, and whose hash the current collection does not hold, yields
\* ('added', F, None) and leaves one row for hash(F).
C1_first_call ==
    \A f \in Files :
        (/\ gen.path = f /\ gen.queue = <<f>> /\ IsNext
         /\ Ingestible(f) /\ active \in vcolls
         /\ hash_count(rows_of(index, active), calculate_file_hash(f)) = 0)
        => /\ gen'.outs = <<Outcome("added", f, "None")>>
           /\ hash_count(rows_of(index', active), calculate_file_hash(f)) = 1

\* C1, second call: add_by_path on a single file that is still on disk and
\* whose hash the current collection holds yields
\* ('skipped', F, 'File already exists in library') and leaves the one row.
C1_second_call ==
    \A f \in Files :
        (/\ gen.path = f /\ gen.queue = <<f>> /\ IsNext
         /\ Ingestible(f)
         /\ hash_count(rows_of(index, active), calculate_file_hash(f)) = 1)
        => /\ gen'.outs = <<Outcome("skipped", f, MsgDuplicate)>>
           /\ hash_count(rows_of(index', active), calculate_file_hash(f)) = 1

\* C1: calling add_by_path(F) twice with no intervening change yields 'added'
\* the first time and 'skipped' with the duplicate message the second time, and
\* the index then holds exactly one record for hash(F).
C1_add_twice == [][C1_first_call /\ C1_second_call]_vars

\* C1 witness: add_by_path on a single file has yielded 'skipped' for a hash the
\* collection holds once.
C1_witness ==
    /\ gen.path \in Files
    /\ gen.outs = <<Outcome("skipped", gen.path, MsgDuplicate)>>
    /\ hash_count(rows_of(index, active), calculate_file_hash(gen.path)) = 1

\* C2: in the index of any one collection, no two rows have the same hash_id.
C2_unique_hash ==
    \A c \in Collections :
        \A i, j \in 1..Len(rows_of(index, c)) :
            i /= j => rows_of(index, c)[i].hash_id /= rows_of(index, c)[j].hash_id

\* C2 witness: a collection indexes two files, and an add of a hash it already
\* holds has been refused.
C2_witness ==
    /\ Len(rows_of(index, active)) >= 2
    /\ \E i \in 1..Len(gen.outs) : gen.outs[i].error_msg = MsgDuplicate

\* C3, the first of the pair: in a batch, a file that add_file has nothing to
\* refuse in, whose bytes a later file of the batch shares and whose hash the
\* collection does not hold, is added.
C3_first_added ==
    (/\ gen.pc = "running" /\ gen.queue /= <<>>
     /\ IsNext
     /\ \E j \in 2..Len(gen.queue) : Twins(Head(gen.queue), gen.queue[j])
     /\ Ingestible(Head(gen.queue)) /\ active \in vcolls
     /\ hash_count(rows_of(index, active), calculate_file_hash(Head(gen.queue))) = 0)
    => gen'.outs[Len(gen'.outs)] = Outcome("added", Head(gen.queue), "None")

\* C3, the second of the pair: in a batch, once a file has been added, a later
\* file with the same bytes under another name (still on disk when its turn
\* comes) is skipped as a duplicate.
C3_second_skipped ==
    \A i, j \in 1..Len(gen.outs) :
        (/\ i < j
         /\ Twins(gen.outs[i].file_path, gen.outs[j].file_path)
         /\ gen.outs[i].status = "added"
         /\ gen.outs[j].error_msg /= MsgNotFound)
        => gen.outs[j] = Outcome("skipped", gen.outs[j].file_path, MsgDuplicate)

\* C3: two files with byte-identical content and different names, added to the
\* same collection in one batch: the first is added, the second is skipped as a
\* duplicate.
C3_same_bytes == [][C3_first_added]_vars /\ [](C3_second_skipped)

\* C3 witness: a batch has added one of two same-content files and skipped the
\* other.
C3_witness ==
    \E i, j \in 1..Len(gen.outs) :
        /\ i < j
        /\ Twins(gen.outs[i].file_path, gen.outs[j].file_path)
        /\ gen.outs[i].status = "added"
        /\ gen.outs[j].status = "skipped"

\* the first PrefixLen characters of hash(f)
prefix_of(f) == Some(slice_to(calculate_file_hash(f), PrefixLen))

\* the step is remove(hash_prefix = the first characters of hash(f)) while the
\* current collection holds the row and the points that adding f left
RemovesAdded(f) ==
    /\ last'.op = "remove" /\ last'.hash_prefix = prefix_of(f) /\ last'.filename = None
    /\ hash_count(rows_of(index, active), calculate_file_hash(f)) = 1
    /\ point_count(points[active], calculate_file_hash(f)) = FileAttr[f].chunks
    /\ \E k \in ExcKinds : Remove(prefix_of(f), None, k)

\* the step returned True and left neither a row nor a point for hash(f) in the
\* current collection
RemovedAll(f) ==
    /\ last'.exc = "None" /\ last'.ret
    /\ hash_count(rows_of(index', active), calculate_file_hash(f)) = 0
    /\ point_count(points'[active], calculate_file_hash(f)) = 0

\* C4 as stated: after F is added, remove(hash_prefix = first characters of
\* hash(F)) returns True and leaves no row and no point for hash(F).
C4_as_stated == [][\A f \in Files : RemovesAdded(f) => RemovedAll(f)]_vars

\* C4: after F is added, remove(hash_prefix = first characters of hash(F))
\* returns True and leaves no row and no point for hash(F) in the current
\* collection, provided no other row of the collection has a hash_id that starts
\* with the same characters.
C4_remove_after_add ==
    [][\A f \in Files :
          (/\ RemovesAdded(f)
           /\ \A i \in 1..Len(rows_of(index, active)) :
                 like(rows_of(index, active)[i].hash_id, prefix_of(f).v \o <<"%">>)
                     => rows_of(index, active)[i].hash_id = calculate_file_hash(f))
          => RemovedAll(f)]_vars

\* C4 witness: remove by the prefix of a file with chunks returned True, and the
\* collection holds no row and no point for its hash.
C4_witness ==
    \E f \in Files :
        /\ last.op = "remove" /\ last.hash_prefix = prefix_of(f) /\ last.filename = None
        /\ last.ret /\ FileAttr[f].chunks > 0
        /\ hash_count(rows_of(index, active), calculate_file_hash(f)) = 0
        /\ point_count(points[active], calculate_file_hash(f)) = 0

\* one add of F on its own, while another collection holds the row and the
\* chunks of hash(F) and the current one holds no chunk of it: the add succeeds
\* and leaves one row and the chunks in both
C5_step ==
    \A f \in Files, A \in Collections \ {active} :
        (/\ (last'.op = "add_file" /\ last'.path = f) \/ gen.queue = <<f>>
         /\ hash_count(rows_of(index, A), calculate_file_hash(f)) = 1
         /\ FileAttr[f].chunks > 0
         /\ point_count(points[A], calculate_file_hash(f)) = FileAttr[f].chunks
         /\ point_count(points[active], calculate_file_hash(f)) = 0
         /\ Ingestible(f) /\ active \in vcolls
         /\ AddsAlone(f))
        => /\ \/ last'.op = "add_file" /\ last'.exc = "None"
              \/ gen'.outs = <<Outcome("added", f, "None")>>
           /\ hash_count(rows_of(index', A), calculate_file_hash(f)) = 1
           /\ hash_count(rows_of(index', active), calculate_file_hash(f)) = 1
           /\ point_count(points'[A], calculate_file_hash(f))
                  = point_count(points[A], calculate_file_hash(f))
           /\ point_count(points'[active], calculate_file_hash(f)) = FileAttr[f].chunks

\* C5: F is indexed in collection A; after a switch to another collection B
\* that does not hold hash(F), adding F succeeds ('added', not 'skipped'), and
\* then A and B each hold one row and the chunks for hash(F).
C5_add_to_second == [][C5_step]_vars

\* C5 witness: a file with chunks was added to the current collection, and
\* another collection holds a row and chunks for its hash too.
C5_witness ==
    \E f \in Files, A \in Collections \ {active} :
        /\ last.op = "add_file" /\ last.path = f /\ last.exc = "None"
        /\ hash_count(rows_of(index, A), calculate_file_hash(f)) = 1
        /\ hash_count(rows_of(index, active), calculate_file_hash(f)) = 1
        /\ point_count(points[A], calculate_file_hash(f)) > 0
        /\ point_count(points[active], calculate_file_hash(f)) > 0

\* one drop_collection: the rows, the points and the existence of every other
\* collection are as before
C6_step ==
    (last'.op = "drop_collection" /\ DropCollection) =>
        \A B \in Collections \ {active} :
            /\ rows_of(index', B) = rows_of(index, B)
            /\ points'[B] = points[B]
            /\ (B \in vcolls') = (B \in vcolls)

\* C6: drop_collection on the current collection leaves the index rows and the
\* vector data of every other collection as they were.
C6_drop_leaves_others == [][C6_step]_vars

\* C6 witness: a collection that held rows was dropped while another one held
\* rows and points.
C6_witness ==
    /\ last.op = "drop_collection" /\ last.held
    /\ \E B \in Collections \ {active} :
          rows_of(index, B) /= <<>> /\ points[B] /= EmptyBag /\ B \in vcolls

\* C7 as stated: drop_collection leaves the default collection as the
\* configured one.
C7_as_stated ==
    [][(last'.op = "drop_collection" /\ DropCollection) => get_collection_name(config') = DEFAULT_COLLECTION_NAME]_vars

\* C8: right after drop_collection, the dropped collection has no index row and
\* no vector data.
C8_drop_empties ==
    last.op = "drop_collection" =>
        /\ count_files(active, index) = 0
        /\ points[active] = EmptyBag
        /\ active \notin vcolls

\* C8 witness: the collection that was dropped held rows.
C8_witness == last.op = "drop_collection" /\ last.held

\* C9, what holds: a batch yields one outcome per discovered file, in discovery
\* order, each with a status of 'added', 'skipped' or 'error'.
C9_one_outcome_each ==
    (gen.pc = "running" /\ ~(gen.path = GitUrl /\ ~gen.cloned_from_git)) =>
        /\ Len(gen.outs) + Len(gen.queue) = Len(gen.file_paths)
        /\ \A i \in 1..Len(gen.outs) :
              /\ gen.outs[i].file_path = gen.file_paths[i]
              /\ gen.outs[i].status \in {"added", "skipped", "error"}

\* C9 as stated, with its example: a batch yields one outcome per discovered
\* file, and a directory with a valid text file, a file over the size limit and
\* a corrupt PDF gives one 'added', one 'skipped' and one 'error'.
C9_as_stated ==
    /\ C9_one_outcome_each
    /\ (/\ gen.pc = "running" /\ gen.path = "docs" /\ gen.queue = <<>>
        /\ {gen.file_paths[i] : i \in 1..Len(gen.file_paths)} = {"f1", "f3", "f4"}
        /\ \E i \in 1..Len(gen.outs) : gen.outs[i] = Outcome("added", "f1", "None"))
       => \A i \in 1..Len(gen.outs) :
             gen.outs[i].status =
                 IF gen.outs[i].file_path = "f1" THEN "added"
                 ELSE IF gen.outs[i].file_path = "f3" THEN "skipped" ELSE "error"

\* C10 as stated: an outcome is 'skipped' exactly when the file was refused as a
\* duplicate or as over the size limit; any other failure is 'error'.
C10_as_stated ==
    \A i \in 1..Len(gen.outs) :
        gen.outs[i].status /= "added" =>
            ((gen.outs[i].status = "skipped")
                 <=> (gen.outs[i].error_msg \in {MsgDuplicate, MsgTooLarge}))

\* the rows the filter of the remove call in last' matches, before the step
Matched == find(rows_of(index, active), last'.hash_prefix, last'.filename)

\* the step is a call of remove
IsRemove ==
    /\ last'.op = "remove"
    /\ \E k \in ExcKinds : Remove(last'.hash_prefix, last'.filename, k)

\* C11: when the filter given to remove matches more than one index record,
\* remove raises the ambiguity error and leaves the index and the vector store
\* exactly as they were.
C11_ambiguous_remove ==
    [][(IsRemove /\ Len(Matched) > 1)
          => /\ last'.exc = "ValueError" /\ ~last'.ret
             /\ index' = index /\ points' = points /\ vcolls' = vcolls]_vars

\* C11 witness: remove by a filename substring that two rows with different
\* hashes share has raised, and both rows are still there.
C11_witness ==
    /\ last.op = "remove" /\ last.exc = "ValueError"
    /\ ~last.hash_prefix.some /\ last.filename.some
    /\ \E i, j \in 1..Len(rows_of(index, active)) :
          /\ rows_of(index, active)[i].hash_id /= rows_of(index, active)[j].hash_id
          /\ like(rows_of(index, active)[i].file_name, <<"%">> \o last.filename.v \o <<"%">>)
          /\ like(rows_of(index, active)[j].file_name, <<"%">> \o last.filename.v \o <<"%">>)

\* C12: when the filter matches no record of the current collection, remove
\* returns False without raising and leaves the index and the vector store
\* unchanged.
C12_remove_no_match ==
    [][(IsRemove /\ Len(Matched) = 0)
          => /\ last'.exc = "None" /\ ~last'.ret
             /\ index' = index /\ points' = points /\ vcolls' = vcolls]_vars

\* C12 witness: remove with a filter has returned False on a collection that
\* holds rows, none of which the filter matches.
C12_witness ==
    /\ last.op = "remove" /\ last.exc = "None" /\ ~last.ret
    /\ last.hash_prefix.some \/ last.filename.some
    /\ rows_of(index, active) /= <<>>
    /\ Len(find(rows_of(index, active), last.hash_prefix, last.filename)) = 0

\* the rows of rs whose hash_id is not h
without_hash(rs, h) == LET keep(r) == r.hash_id /= h IN SelectSeq(rs, keep)

\* C13: when the filter matches exactly one record, with hash h, remove deletes
\* exactly the points of the current collection whose metadata.hash_id is h and
\* exactly the index record with hash_id h; every other record and point, and
\* every other collection, is unchanged.
C13_remove_only_matched ==
    [][(IsRemove /\ Len(Matched) = 1)
          => /\ last'.exc = "None" /\ last'.ret
             /\ rows_of(index', active) = without_hash(rows_of(index, active), Matched[1].hash_id)
             /\ DOMAIN points'[active] =
                    {e \in DOMAIN points[active] : e.metadata["hash_id"] /= Matched[1].hash_id}
             /\ \A e \in DOMAIN points'[active] : points'[active][e] = points[active][e]
             /\ \A B \in Collections \ {active} :
                    rows_of(index', B) = rows_of(index, B) /\ points'[B] = points[B]
             /\ vcolls' = vcolls]_vars

\* C13 witness: remove has returned True and the current collection still
\* holds the row and the points of another file.
C13_witness ==
    /\ last.op = "remove" /\ last.exc = "None" /\ last.ret
    /\ rows_of(index, active) /= <<>>
    /\ points[active] /= EmptyBag

\* C14 as stated: remove() with neither hash_prefix nor filename deletes
\* nothing from either store, whatever the current collection holds.
C14_as_stated ==
    [][(IsRemove /\ ~last'.hash_prefix.some /\ ~last'.filename.some)
          => index' = index /\ points' = points]_vars

\* C17: once a batch of add_by_path on a remote locator that is not a local path
\* has ended, the directory the source was cloned into does not exist, whichever
\* way the batch ended (all files processed, some failed, the clone failed, an
\* exception left the generator, the consumer closed it).
C17_fetch_released == gen.pc = "idle" => ~repo

\* C17 witness: the consumer closed a batch on the remote locator after an outcome
\* for a cloned file, whose chunks are in the vector store, and the directory is gone.
C17_witness ==
    /\ last.op = "add_by_path" /\ last.path = GitUrl /\ last.exc = "GeneratorExit"
    /\ gen.pc = "idle" /\ ~repo
    /\ \E f \in Files :
          /\ FileAttr[f].dir = "repo"
          /\ point_count(points[active], calculate_file_hash(f)) > 0

\* C19: switch_collection(name) leaves the index records and the points of
\* every collection unchanged; it changes only the persisted name and the
\* active handle, and creates the vector collection of the name, empty, when
\* there was none.
C19_switch_moves_nothing ==
    [][(last'.op = "switch_collection" /\ \E name \in RawNames : SwitchCollection(name))
          => /\ index' = index /\ points' = points
             /\ vcolls' = vcolls \cup {active'}
             /\ active' \notin vcolls => points'[active'] = EmptyBag
             /\ \E name \in RawNames :
                   /\ config' = save_collection_name(config, name)
                   /\ active' = get_collection_name(config')
             /\ UNCHANGED <<present, repo, gen>>]_vars

\* C19 witness: a switch has just made a collection without records current
\* while another collection holds records and points.
C19_witness ==
    /\ last.op = "switch_collection"
    /\ rows_of(index, active) = <<>> /\ points[active] = EmptyBag
    /\ \E B \in Collections \ {active} : rows_of(index, B) /= <<>> /\ points[B] /= EmptyBag

\* C20: the Librarian's handle is always on the collection whose name is the
\* persisted one, count_files counts the records of that collection, and no
\* step adds, removes or drops records or points of any other collection.
C20_one_name ==
    [][/\ active = get_collection_name(config)
       /\ active' = get_collection_name(config')
       /\ count_files(active, index) = Len(rows_of(index, get_collection_name(config)))
       /\ \A B \in Collections \ {active} :
             /\ rows_of(index', B) = rows_of(index, B)
             /\ points'[B] = points[B]
             /\ B \in vcolls' <=> (B \in vcolls \/ B = active')]_vars

\* C20 witness: after a drop of the default collection and a switch, a file
\* was added, and its record and points are in the collection the
\* configuration names.
C20_witness ==
    /\ DEFAULT_COLLECTION_NAME \notin vcolls
    /\ active /= DEFAULT_COLLECTION_NAME
    /\ last.op = "add_file" /\ last.exc = "None"
    /\ rows_of(index, get_collection_name(config)) /= <<>>
    /\ points[get_collection_name(config)] /= EmptyBag

---------------------------------------------------------------------------
(* add_file called with metadata of the caller's own *)

\* the additional_metadata a caller of add_file passes: none, a key of the
\* caller's own, and the key add_file itself sets
CallerMetadata ==
    {EmptyDict, "tag" :> <<"t">>, "hash_id" :> <<"c", "a", "f">>}

\* the files given to add_file in these calls
CallerFiles == {"f1", "f5"}

NextMeta ==
    \/ \E f \in CallerFiles, amd \in CallerMetadata : AddFile(f, amd, "Exception")
    \/ \E name \in RawNames : SwitchCollection(name)

SpecMeta == Init /\ [][NextMeta]_vars

\* the points a step has written to the current collection
Written == {e \in DOMAIN points'[active] :
               e \notin DOMAIN points[active] \/ points'[active][e] > points[active][e]}

\* C18 as stated: whatever additional_metadata the caller passes, every chunk
\* that an add writes carries as metadata.hash_id the hash_id of the index
\* record inserted for the file.
C18_as_stated ==
    [][(last'.op = "add_file" /\ last'.exc = "None" /\ index' /= index)
          => \A e \in Written :
                e.metadata["hash_id"] =
                    rows_of(index', active)[Len(rows_of(index', active))].hash_id]_vars

---------------------------------------------------------------------------
(* add_file and remove statement by statement, in a process that can die *)

\* how many times the process is killed
MaxCrashes == 2

\* the files given to add_file in these calls
CrashFiles == {"f1", "f3", "f4", "f5"}

\* add_file, the is_file and the size checks
AddFileCheck(f) ==
    /\ gen.pc = "idle" /\ call.pc = "idle"
    /\ IF f \notin on_disk(present, repo)
       THEN /\ last' = [Call("add_file") EXCEPT !.path = f, !.exc = "FileNotFoundError"]
            /\ call' = NoCall
       ELSE IF FileAttr[f].size > MAX_FILE_SIZE_BYTES
       THEN /\ last' = [Call("add_file") EXCEPT !.path = f, !.exc = "ValueError"]
            /\ call' = NoCall
       ELSE /\ last' = [Call("add_file") EXCEPT !.path = f, !.exc = "Running"]
            /\ call' = [NoCall EXCEPT !.op = "add_file", !.pc = "sized", !.path = f]
    /\ UNCHANGED <<present, repo, config, active, vcolls, points, index, gen, crashes, race, clock>>

\* add_file, file_hash = calculate_file_hash(file_path)
AddFileHash ==
    /\ call.op = "add_file" /\ call.pc = "sized"
    /\ call' = [call EXCEPT !.pc = "hashed", !.hash_id = calculate_file_hash(call.path)]
    /\ UNCHANGED <<present, repo, config, active, vcolls, points, index, gen, last, crashes, race, clock>>

\* add_file, the duplicate check against the index of the collection
AddFileCheckDuplicate ==
    /\ call.op = "add_file" /\ call.pc = "hashed"
    /\ IF exist(from_collection(index, active), call.hash_id)
       THEN /\ last' = [last EXCEPT !.exc = "ValueError"]
            /\ call' = NoCall
       ELSE /\ call' = [call EXCEPT !.pc = "checked"]
            /\ UNCHANGED last
    /\ UNCHANGED <<present, repo, config, active, vcolls, points, index, gen, crashes, race, clock>>

\* add_file, the metadata and save_any up to the write: the loader reads the
\* file, the splitter cuts it and inject_metadata stamps the chunks
AddFileLoad(k) ==
    /\ call.op = "add_file" /\ call.pc = "checked"
    /\ LET metadata == update("hash_id" :> call.hash_id, EmptyDict)
           docs == inject_metadata(split_documents(call.path), metadata)
       IN  IF call.path \notin on_disk(present, repo)
           THEN /\ last' = [last EXCEPT !.exc = "FileNotFoundError"]
                /\ call' = NoCall
           ELSE IF FileAttr[call.path].corrupt \/ active \notin vcolls
           THEN /\ last' = [last EXCEPT !.exc = k]
                /\ call' = NoCall
           ELSE /\ call' = [call EXCEPT !.docs = docs,
                                        !.pc = IF docs = <<>> THEN "written" ELSE "writing"]
                /\ UNCHANGED last
    /\ UNCHANGED <<present, repo, config, active, vcolls, points, index, gen, crashes, race, clock>>

\* vectorstore.add_documents, one point
AddFileWrite ==
    /\ call.op = "add_file" /\ call.pc = "writing"
    /\ points' = [points EXCEPT ![active] = bag_add(@, Head(call.docs))]
    /\ call' = [call EXCEPT !.docs = Tail(@),
                            !.pc = IF Tail(call.docs) = <<>> THEN "written" ELSE "writing"]
    /\ UNCHANGED <<present, repo, config, active, vcolls, index, gen, last, crashes, race, clock>>

\* an add_file that inserts the record before it writes to the vector store
AddFileInsert_before_write ==
    /\ call.op = "add_file" /\ call.pc = "checked"
    /\ index' = [index EXCEPT ![db_url(active)] =
                    dao_add(@, LibraryFile(call.hash_id, FileAttr[call.path].name))]
    /\ last' = [last EXCEPT !.exc = "None"]
    /\ call' = NoCall
    /\ UNCHANGED <<present, repo, config, active, vcolls, points, gen, crashes, race, clock>>

\* add_file, file_dao.add(LibraryFile(...)), and the return
AddFileInsert ==
    /\ call.op = "add_file" /\ call.pc = "written"
    /\ index' = [index EXCEPT ![db_url(active)] =
                    dao_add(@, LibraryFile(call.hash_id, FileAttr[call.path].name))]
    /\ last' = [last EXCEPT !.exc = "None"]
    /\ call' = NoCall
    /\ UNCHANGED <<present, repo, config, active, vcolls, points, gen, crashes, race, clock>>

\* remove, the search and the checks on the number of matches
RemoveFind(hash_prefix, filename) ==
    /\ gen.pc = "idle" /\ call.pc = "idle"
    /\ LET files == find(from_collection(index, active), hash_prefix, filename)
           c == [Call("remove") EXCEPT !.hash_prefix = hash_prefix, !.filename = filename]
       IN  IF Len(files) = 0
           THEN last' = c /\ call' = NoCall
           ELSE IF Len(files) > 1
           THEN last' = [c EXCEPT !.exc = "ValueError"] /\ call' = NoCall
           ELSE /\ last' = [c EXCEPT !.exc = "Running"]
                /\ call' = [NoCall EXCEPT !.op = "remove", !.pc = "found",
                                          !.hash_id = files[1].hash_id]
    /\ UNCHANGED <<present, repo, config, active, vcolls, points, index, gen, crashes, race, clock>>

\* remove, client.delete of the points with the hash_id
RemoveDeletePoints(k) ==
    /\ call.op = "remove" /\ call.pc = "found"
    /\ IF active \notin vcolls
       THEN /\ last' = [last EXCEPT !.exc = k]
            /\ call' = NoCall
            /\ UNCHANGED points
       ELSE /\ points' = [points EXCEPT ![active] = delete_points(@, call.hash_id)]
            /\ call' = [call EXCEPT !.pc = "points_deleted"]
            /\ UNCHANGED last
    /\ UNCHANGED <<present, repo, config, active, vcolls, index, gen, crashes, race, clock>>

\* remove, the delete of the record, and the return
RemoveDeleteRecord ==
    /\ call.op = "remove" /\ call.pc = "points_deleted"
    /\ index' = [index EXCEPT ![db_url(active)] = dao_delete(@, Some(call.hash_id))]
    /\ last' = [last EXCEPT !.exc = "None", !.ret = TRUE]
    /\ call' = NoCall
    /\ UNCHANGED <<present, repo, config, active, vcolls, points, gen, crashes, race, clock>>

\* the process is killed between two statements of a call; what is on disk
\* stays, and the next process constructs its Librarian
Crash ==
    /\ call.pc /= "idle"
    /\ crashes < MaxCrashes
    /\ crashes' = crashes + 1
    /\ call' = NoCall
    /\ last' = [last EXCEPT !.exc = "Crash"]
    /\ active' = get_collection_name(config)
    /\ vcolls' = init_collection(vcolls, get_collection_name(config))
    /\ UNCHANGED <<present, repo, config, points, index, gen, race, clock>>

NextCrash ==
    \/ \E f \in CrashFiles : AddFileCheck(f)
    \/ AddFileHash
    \/ AddFileCheckDuplicate
    \/ \E k \in KindsIf(/\ call.path \in Files
                         /\ (FileAttr[call.path].corrupt \/ active \notin vcolls)) :
          AddFileLoad(k)
    \/ AddFileWrite
    \/ AddFileInsert
    \/ \E hp \in HashPrefixes, fn \in Filenames : RemoveFind(hp, fn)
    \/ \E k \in KindsIf(active \notin vcolls) : RemoveDeletePoints(k)
    \/ RemoveDeleteRecord
    \/ Crash
    \/ call.pc = "idle" /\ \E name \in RawNames : SwitchCollection(name)

SpecCrash == Init /\ [][NextCrash]_vars

\* the order of the statements of add_file: the places a call can be in, each
\* with the places it can come from
After(pc) ==
    CASE pc = "sized" -> {"idle"}
      [] pc = "hashed" -> {"sized"}
      [] pc = "checked" -> {"hashed"}
      [] pc = "writing" -> {"checked", "writing"}
      [] pc = "written" -> {"checked", "writing"}
      [] OTHER -> {"idle", "sized", "hashed", "checked", "writing", "written"}

\* C15: a single add_file does the size check, the hash, the duplicate check,
\* the vector-store write and the index insert in that order; at every point
\* of an add, a crash included, the index changes only at the insert, which
\* comes when every chunk of the file is in the vector store, and an add whose
\* duplicate check has passed finds no record for its hash before the insert.
C15_add_order ==
    [][(call.op = "add_file" \/ call'.op = "add_file")
          => /\ call.pc \in After(call'.pc)
             /\ call'.pc = "written" =>
                   point_count(points'[active], call.hash_id) >= FileAttr[call.path].chunks
             /\ call.pc \in {"checked", "writing", "written"} =>
                   ~exist(rows_of(index, active), call.hash_id)
             /\ index' /= index =>
                   /\ call.pc = "written" /\ call'.pc = "idle" /\ last'.exc = "None"
                   /\ point_count(points[active], call.hash_id) >= FileAttr[call.path].chunks
                   /\ rows_of(index', active) =
                         Append(rows_of(index, active),
                                LibraryFile(call.hash_id, FileAttr[call.path].name))
             /\ (call'.pc = "idle" /\ last'.exc /= "None") => index' = index]_vars

\* C15 witness: an add was killed during its write; chunks of the file are in
\* the vector store and the index has no record for its hash.
C15_witness ==
    /\ last.op = "add_file" /\ last.exc = "Crash"
    /\ point_count(points[active], calculate_file_hash(last.path)) > 0
    /\ ~exist(rows_of(index, active), calculate_file_hash(last.path))

\* C16 as stated: after a crash at any point of a remove, every index record of
\* the current collection still has points in the vector store.
C16_as_stated ==
    (last.op = "remove" /\ last.exc = "Crash")
        => \A i \in 1..Len(rows_of(index, active)) :
              point_count(points[active], rows_of(index, active)[i].hash_id) > 0

\* C22 as stated: add_by_path on a path that does not exist lets no exception
\* reach the consumer.
C22_as_stated ==
    (last.op = "add_by_path" /\ last.path = "nowhere") => last.exc = "None"

\* C23: a file over the size limit is refused with the size message whatever
\* the index holds, and a file whose outcome is 'skipped' (in a batch), or
\* whose add_file raised ValueError (on its own), leaves the index and the
\* vector store exactly as they were before it was processed.
C23_rejections_change_nothing ==
    [][/\ (gen.pc = "running" /\ gen.queue /= <<>> /\ IsNext) =>
             /\ gen'.outs[Len(gen'.outs)].status = "skipped"
                   => index' = index /\ points' = points
             /\ (/\ Head(gen.queue) \in on_disk(present, repo)
                 /\ FileAttr[Head(gen.queue)].size > MAX_FILE_SIZE_BYTES)
                   => gen'.outs[Len(gen'.outs)] =
                         Outcome("skipped", Head(gen.queue), MsgTooLarge)
       /\ (last'.op = "add_file" /\ last'.exc = "ValueError" /\ last' /= last)
             => index' = index /\ points' = points]_vars

\* C23 witness: a batch has yielded 'skipped' both for a file over the size
\* limit and for a duplicate, and the collection holds records and points.
C23_witness ==
    /\ gen.pc = "running"
    /\ \E i, j \in 1..Len(gen.outs) :
          /\ gen.outs[i].status = "skipped" /\ gen.outs[i].error_msg = MsgTooLarge
          /\ gen.outs[j].status = "skipped" /\ gen.outs[j].error_msg = MsgDuplicate
    /\ rows_of(index, active) /= <<>> /\ points[active] /= EmptyBag

C25_as_stated ==
    [][(last.op = "drop_collection" /\ last'.op = "add_file" /\ Ingestible(last'.path))
          => /\ last'.exc = "None"
             /\ active \in vcolls'
             /\ exist(rows_of(index', active), calculate_file_hash(last'.path))
             /\ point_count(points'[active], calculate_file_hash(last'.path))
                    = FileAttr[last'.path].chunks]_vars

\* C26 as stated: every chunk of a file that came from the clone of a remote
\* locator carries that locator as source_root; a chunk of a local file
\* carries the resolved directory, or no source_root when it was added as a
\* single file.
C26_as_stated ==
    \A c \in Collections : \A e \in DOMAIN points[c] :
        IF FileAttr[e.metadata["source"]].dir = "repo"
        THEN "source_root" \in DOMAIN e.metadata /\ e.metadata["source_root"] = GitUrl
        ELSE "source_root" \in DOMAIN e.metadata => e.metadata["source_root"] = "/abs/docs"

\* str.startswith: p is a leading substring of s, character for character
startswith(s, p) == Len(p) <= Len(s) /\ SubSeq(s, 1, Len(p)) = p

\* sub in s: sub occurs in s, character for character
occurs_in(sub, s) ==
    \E i \in 0..(Len(s) - Len(sub)) : SubSeq(s, i + 1, i + Len(sub)) = sub

\* filter strings: plain ones, one that differs from stored names in case
\* only, and the two wildcard characters of LIKE
FilterStrings == {<<"a">>, <<"A">>, <<"b">>, <<"%">>, <<"_">>}

\* C27 as stated: for every filter string, find returns exactly the records
\* of the partition whose hash_id starts with hash_prefix and whose file_name
\* contains filename, literally.
C27_as_stated ==
    \A hp \in HashPrefixes \cup {Some(x) : x \in FilterStrings},
       fn \in {None} \cup {Some(x) : x \in FilterStrings} :
        LET literal(r) ==
              /\ hp.some => startswith(r.hash_id, hp.v)
              /\ fn.some => occurs_in(fn.v, r.file_name)
        IN  find(rows_of(index, active), hp, fn) = SelectSeq(rows_of(index, active), literal)

\* the files of a sequence
Range(q) == {q[i] : i \in 1..Len(q)}

\* C30: a directory ingest (local or cloned) works on exactly the files under
\* it whose lower-cased suffix is .pdf, .epub, .md or .txt; a single-file
\* ingest works on the file whatever its suffix; and a file with any other
\* suffix is read by the plain-text loader: when add_file has nothing to
\* refuse in it, it is 'added' with all its chunks.
C30_dispatch_and_discovery ==
    [][/\ (gen.pc = "idle" /\ gen'.pc = "running" /\ gen'.file_paths /= <<>>) =>
             /\ gen'.path \in Files => gen'.file_paths = <<gen'.path>>
             /\ gen'.path \notin Files =>
                   Range(gen'.file_paths) =
                       {f \in on_disk(present, repo') :
                           /\ FileAttr[f].dir = (IF gen'.path = GitUrl THEN "repo" ELSE gen'.path)
                           /\ lower_char(suffix(f)) \in {".pdf", ".epub", ".md", ".txt"}}
       /\ (/\ gen.pc = "running" /\ gen.queue /= <<>>
           /\ lower_char(suffix(Head(gen.queue))) \notin {".pdf", ".epub", ".md", ".txt"}
           /\ Ingestible(Head(gen.queue)) /\ active \in vcolls
           /\ ~exist(rows_of(index, active), calculate_file_hash(Head(gen.queue)))
           /\ IsNext) =>
             /\ saver(Head(gen.queue)) = "save_text"
             /\ gen'.outs[Len(gen'.outs)] = Outcome("added", Head(gen.queue), "None")
             /\ point_count(points'[active], calculate_file_hash(Head(gen.queue)))
                   = point_count(points[active], calculate_file_hash(Head(gen.queue)))
                       + FileAttr[Head(gen.queue)].chunks]_vars

\* C30 witness: a single-file ingest of a file with an unsupported suffix has
\* yielded 'added', while the directory it lies in holds it too.
C30_witness ==
    /\ gen.pc = "running" /\ gen.path \in Files
    /\ lower_char(suffix(gen.path)) \notin {".pdf", ".epub", ".md", ".txt"}
    /\ FileAttr[gen.path].dir = "docs"
    /\ gen.outs = <<Outcome("added", gen.path, "None")>>

---------------------------------------------------------------------------
(* The configuration file on its own *)

\* what config.json can hold before the program runs: nothing (no file), text
\* that is no JSON, a JSON list, and JSON objects with and without the key
\* collection_name and another key
ConfigFiles ==
    {ConfigMissing, [kind |-> "unparsable", data |-> EmptyDict],
     [kind |-> "list", data |-> EmptyDict]}
    \cup {[kind |-> "dict", data |-> d] :
            d \in {EmptyDict, "theme" :> <<"t">>}
                  \cup {"collection_name" :> n : n \in {<<>>, <<" ">>, <<"w">>, <<" ", "w">>}}
                  \cup {("theme" :> <<"t">>) @@ ("collection_name" :> n) :
                          n \in {<<" ">>, <<"w", " ">>}}}

\* the names given to save_collection_name
SavedNames ==
    RawNames \cup {<<>>, <<"w", " ">>, <<" ", "d", " ">>, <<"x">>, <<" ", "w", " ", "x", " ">>}

InitConfig ==
    /\ present = {f \in Files : FileAttr[f].dir = "docs"}
    /\ repo = FALSE
    /\ config \in ConfigFiles
    /\ active = get_collection_name(config)
    /\ vcolls = init_collection({}, get_collection_name(config))
    /\ points = [c \in Collections |-> EmptyBag]
    /\ index = [u \in Urls |-> <<>>]
    /\ gen = NoGen
    /\ last = Call("Librarian")
    /\ call = NoCall
    /\ crashes = 0
    /\ race = NoRace
    /\ clock = 0

\* librarian_config.save_collection_name(name), as cli.librarian_checkout calls it
SaveCollectionName(name) ==
    /\ config' = save_collection_name(config, name)
    /\ last' = [Call("save_collection_name") EXCEPT !.filename = Some(name)]
    /\ UNCHANGED <<present, repo, active, vcolls, points, index, gen, call, crashes, race, clock>>

NextConfig ==
    \/ \E name \in SavedNames : SaveCollectionName(name)
    \/ NewLibrarian

SpecConfig == InitConfig /\ [][NextConfig]_vars

\* s is n without the blanks at its two ends
IsStripped(s, n) ==
    /\ s = <<>> \/ (s[1] /= " " /\ s[Len(s)] /= " ")
    /\ \E i \in 1..(Len(n) + 1), j \in 0..Len(n) :
          /\ s = SubSeq(n, i, j)
          /\ \A m \in 1..Len(n) : (m < i \/ m > j) => n[m] = " "

\* C29: get_collection_name() is the default name when config.json is missing,
\* is no JSON, is no JSON object, or holds no name or a blank one; after
\* save_collection_name(n) it is n without its surrounding blanks, or the
\* default name when n is blank, and every other key of the configuration
\* is as it was.
C29_name_round_trip ==
    [][/\ (\/ config.kind /= "dict"
           \/ "collection_name" \notin DOMAIN config.data
           \/ IsStripped(<<>>, config.data["collection_name"]))
             => get_collection_name(config) = DEFAULT_COLLECTION_NAME
       /\ (last'.op = "Librarian" /\ NewLibrarian) =>
             IF \/ config.kind /= "dict"
                \/ "collection_name" \notin DOMAIN config.data
                \/ IsStripped(<<>>, config.data["collection_name"])
             THEN active' = DEFAULT_COLLECTION_NAME
             ELSE IsStripped(active', config.data["collection_name"])
       /\ (last'.op = "save_collection_name"
              /\ SaveCollectionName(last'.filename.v)) =>
             /\ IF IsStripped(<<>>, last'.filename.v)
                THEN get_collection_name(config') = DEFAULT_COLLECTION_NAME
                ELSE IsStripped(get_collection_name(config'), last'.filename.v)
             /\ config'.kind = "dict"
             /\ \A key \in DOMAIN config'.data \ {"collection_name"} :
                   config.kind = "dict" /\ key \in DOMAIN config.data
                       /\ config'.data[key] = config.data[key]
             /\ config.kind = "dict" => DOMAIN config.data \subseteq DOMAIN config'.data]_vars

\* C29 witness: a name with surrounding blanks was saved over a configuration
\* that held another key; the name read back is the bare name and the other
\* key is still there.
C29_witness ==
    /\ last.op = "save_collection_name"
    /\ last.filename.v /= strip(last.filename.v)
    /\ get_collection_name(config) = <<"w">>
    /\ "theme" \in DOMAIN config.data

---------------------------------------------------------------------------
(* Two Librarian processes that add to the same collection *)

\* the files they add: two of them hold the same bytes
RaceFiles == {"f1", "f2", "f5"}

\* an insert into a table without the unique constraint
insert_unchecked(rows, obj) == [exc |-> "None", rows |-> Append(rows, obj)]

\* the insert of the metadata index: it fails with a duplicate-key condition
\* when the partition holds a record of the hash_id
insert(rows, obj) ==
    IF exist(rows, obj.hash_id)
    THEN [exc |-> "DuplicateKey", rows |-> rows]
    ELSE [exc |-> "None", rows |-> Append(rows, obj)]

\* add_file of process i up to the hash: the file is there and within the limit
RaceBegin(i, f) ==
    /\ race[i].pc \in {"idle", "done"}
    /\ f \in present /\ FileAttr[f].size <= MAX_FILE_SIZE_BYTES /\ ~FileAttr[f].corrupt
    /\ race' = [race EXCEPT ![i] = [pc |-> "hashed", path |-> f,
                                    hash_id |-> calculate_file_hash(f), exc |-> "None"]]
    /\ UNCHANGED <<present, repo, config, active, vcolls, points, index, gen, last,
                   call, crashes, clock>>

\* add_file of process i, the duplicate check
RaceCheckDuplicate(i) ==
    /\ race[i].pc = "hashed"
    /\ race' = [race EXCEPT ![i] =
                  IF exist(from_collection(index, active), race[i].hash_id)
                  THEN [@ EXCEPT !.pc = "done", !.exc = "ValueError"]
                  ELSE [@ EXCEPT !.pc = "checked"]]
    /\ UNCHANGED <<present, repo, config, active, vcolls, points, index, gen, last,
                   call, crashes, clock>>

\* add_file of process i, the vector-store write
RaceWrite(i) ==
    /\ race[i].pc = "checked"
    /\ LET saved == save_any(race[i].path, present, active, "hash_id" :> race[i].hash_id,
                             vcolls, points, "Exception")
       IN  /\ saved.exc = "None"
           /\ points' = saved.points
    /\ race' = [race EXCEPT ![i].pc = "written"]
    /\ UNCHANGED <<present, repo, config, active, vcolls, index, gen, last,
                   call, crashes, clock>>

\* add_file of process i, the index insert
RaceInsert(i) ==
    /\ race[i].pc = "written"
    /\ LET r == insert(from_collection(index, active),
                       LibraryFile(race[i].hash_id, FileAttr[race[i].path].name))
       IN  /\ index' = [index EXCEPT ![db_url(active)] = r.rows]
           /\ race' = [race EXCEPT ![i].pc = "done", ![i].exc = r.exc]
    /\ UNCHANGED <<present, repo, config, active, vcolls, points, gen, last,
                   call, crashes, clock>>

NextRace ==
    \/ \E i \in Instances, f \in RaceFiles : RaceBegin(i, f)
    \/ \E i \in Instances : RaceCheckDuplicate(i)
    \/ \E i \in Instances : RaceWrite(i)
    \/ \E i \in Instances : RaceInsert(i)

SpecRace == Init /\ [][NextRace]_vars

\* C21: whatever the interleaving of the duplicate checks, the writes and the
\* inserts of two Librarian processes that add files with the same bytes to
\* one collection, the index never holds more than one record of a hash, holds
\* exactly one once an add of it has come to its insert, the vector store holds
\* at most one set of chunks per process, and of two adds of the same hash
\* that both came to their insert, one is refused with the duplicate-key
\* condition.
C21_race_is_bounded ==
    /\ \A f \in RaceFiles :
          /\ hash_count(rows_of(index, active), calculate_file_hash(f)) <= 1
          /\ point_count(points[active], calculate_file_hash(f))
                <= Cardinality(Instances) * FileAttr[f].chunks
    /\ \A i \in Instances :
          (race[i].pc = "done" /\ race[i].exc \in {"None", "DuplicateKey"})
             => hash_count(rows_of(index, active), race[i].hash_id) = 1
    /\ \A i, j \in Instances :
          (/\ i /= j /\ race[i].pc = "done" /\ race[j].pc = "done"
           /\ race[i].hash_id = race[j].hash_id
           /\ race[i].exc = "None")
             => race[j].exc \in {"DuplicateKey", "ValueError"}

\* C21 witness: both processes passed the duplicate check for the same hash
\* and wrote; one insert succeeded, the other met the duplicate key, and the
\* vector store holds the chunks twice.
C21_witness ==
    /\ race[1].pc = "done" /\ race[2].pc = "done"
    /\ race[1].hash_id = race[2].hash_id
    /\ {race[1].exc, race[2].exc} = {"None", "DuplicateKey"}
    /\ hash_count(rows_of(index, active), race[1].hash_id) = 1
    /\ point_count(points[active], race[1].hash_id)
          = FileAttr[race[1].path].chunks + FileAttr[race[2].path].chunks

---------------------------------------------------------------------------
(* The index with its timestamps, and find_latest_files *)

\* the latest time the clock of the index shows
MaxClock == 2

\* the files added, the ticks of the clock between two inserts (none: the
\* two records get equal created_at), and the limits asked for
LatestFiles == {"f1", "f5"}
Ticks == {0, 1}
Limits == {1, 2, 3}

\* the column default of created_at: a record gets the time of its insertion
with_created_at(rows, now) ==
    [i \in DOMAIN rows |->
       IF "created_at" \in DOMAIN rows[i] THEN rows[i]
       ELSE [hash_id |-> rows[i].hash_id, file_name |-> rows[i].file_name, created_at |-> now]]

\* Librarian.find_latest_files: order_by(created_at.desc()).limit(limit); the
\* results the query can give, the order among records of equal created_at
\* being left to the database
find_latest_files(rows, limit) ==
    LET n == Len(rows)
        sorted == {p \in [1..n -> 1..n] :
                     /\ \A i, j \in 1..n : i /= j => p[i] /= p[j]
                     /\ \A i, j \in 1..n :
                           i < j => rows[p[i]].created_at >= rows[p[j]].created_at}
    IN  {[i \in 1..Min(limit, n) |-> rows[p[i]]] : p \in sorted}

\* add_file, with the clock of the index
AddFileStamped(f, tick) ==
    /\ gen.pc = "idle"
    /\ clock + tick <= MaxClock
    /\ clock' = clock + tick
    /\ LET r == add_file(f, EmptyDict, "Exception", on_disk(present, repo),
                         active, vcolls, points, index)
       IN  /\ points' = r.points
           /\ index' = [u \in Urls |-> with_created_at(r.index[u], clock')]
           /\ last' = [Call("add_file") EXCEPT !.path = f, !.exc = r.exc]
    /\ UNCHANGED <<present, repo, config, active, vcolls, gen, call, crashes, race>>

FindLatestFiles(limit) ==
    /\ gen.pc = "idle"
    /\ \E q \in find_latest_files(from_collection(index, active), limit) :
          last' = [Call("find_latest_files") EXCEPT !.limit = limit, !.result = q]
    /\ UNCHANGED <<present, repo, config, active, vcolls, points, index, gen,
                   call, crashes, race, clock>>

NextLatest ==
    \/ \E f \in LatestFiles, tick \in Ticks : AddFileStamped(f, tick)
    \/ \E hp \in HashPrefixes : Remove(hp, None, "Exception")
    \/ \E limit \in Limits : FindLatestFiles(limit)
    \/ \E name \in RawNames : SwitchCollection(name)

SpecLatest == Init /\ [][NextLatest]_vars

\* the place of a record in its partition, in insertion order
place(rows, r) == CHOOSE k \in 1..Len(rows) : rows[k] = r

\* C28 as stated: find_latest_files(limit) returns min(limit, count) records of
\* the current collection by created_at descending, records of equal
\* created_at in insertion order, and the first of them is the most recently
\* added file still present.
C28_as_stated ==
    last.op = "find_latest_files" =>
        LET q == last.result
            rows == rows_of(index, active)
        IN  /\ Len(q) = Min(last.limit, Len(rows))
            /\ \A i, j \in 1..Len(q) :
                  i < j => \/ q[i].created_at > q[j].created_at
                           \/ /\ q[i].created_at = q[j].created_at
                              /\ place(rows, q[i]) < place(rows, q[j])
            /\ q /= <<>> => q[1] = rows[Len(rows)]

---------------------------------------------------------------------------
(* A clone target that is on disk before add_by_path is called *)

\* a directory appears at GITREPO_DIR/<repo_name> while no batch runs: the
\* user's own clone, or one that a killed batch left
EnvMkdirRepo ==
    /\ gen.pc = "idle"
    /\ ~repo
    /\ repo' = TRUE
    /\ UNCHANGED <<present, config, active, vcolls, points, index, gen, last,
                   call, crashes, race, clock>>

NextFetch ==
    \/ \E git \in GitOutcomes : AddByPathStart(GitUrl, git)
    \/ \E k \in KindsIf(/\ gen.queue /= <<>>
                         /\ (FileAttr[Head(gen.queue)].corrupt \/ active \notin vcolls)) :
          AddByPathNext(k)
    \/ AddByPathReturn
    \/ AddByPathClose
    \/ AddByPathRaise
    \/ EnvMkdirRepo
    \/ \E name \in RawNames : SwitchCollection(name)
    \/ \E hp \in HashPrefixes : \E k \in KindsIf(active \notin vcolls) : Remove(hp, None, k)

SpecFetch == Init /\ [][NextFetch]_vars

\* C31 as stated: a directory that was at the clone target before add_by_path
\* was called is still there after the batch has ended.
C31_as_stated ==
    (last.op = "add_by_path" /\ last.path = GitUrl /\ last.held /\ gen.pc = "idle") => repo

---------------------------------------------------------------------------
(* The two stores between calls *)

\* the hash_ids that have at least one point in a collection of the vector store
point_hashes(bag) ==
    {e.metadata["hash_id"] : e \in {x \in DOMAIN bag : "hash_id" \in DOMAIN x.metadata}}

\* the hash_ids recorded in a partition of the metadata index
row_hashes(rs) == {rs[i].hash_id : i \in 1..Len(rs)}

====
